---- MODULE Spec2Model ----
(***************************************************************************)
(* Model of the roast check-in manager: the Store (src/lib/db.ts), the API *)
(* layer (app/api/groups/route.ts, app/api/members/route.ts) and the Sync  *)
(* Engine (src/lib/useGroups.ts, a hook over SWR's bound mutate), the      *)
(* store clients of a process (getClient, getTursoClient), the editing     *)
(* state of the view (app/GroupCard.tsx) and the statements of store calls *)
(* that requests of one process run at once.                               *)
(*                                                                         *)
(* Strings are sequences of one-character strings, so that trim() is a     *)
(* real computation.  JavaScript's undefined is the one-element sequence   *)
(* Undefined, which no string of characters equals.                        *)
(***************************************************************************)
EXTENDS Integers, Sequences, FiniteSets, TLC

(* ------------------------------------------------------------------ *)
(*  Bounds                                                             *)
(* ------------------------------------------------------------------ *)

\* Largest id the groups table hands out in a run.
MaxGroups == 2
\* Largest id the members table hands out in a run.
MaxMembers == 2
\* Latest second of the store's clock at which a row is created.
MaxClock == 1

(* ------------------------------------------------------------------ *)
(*  Strings                                                            *)
(* ------------------------------------------------------------------ *)

Undefined == <<"undefined">>

DefaultGroupName == <<"N", "e", "w", " ", "G", "r", "o", "u", "p">>

DefaultMemberName == <<"N", "e", "w", " ", "M", "e", "m", "b", "e", "r">>

\* The names a caller may pass: omitted, empty, whitespace only, padded.
NameArgs == {Undefined, <<>>, <<" ">>, <<" ", "A", " ">>}

RECURSIVE TrimLeft(_)
TrimLeft(str) ==
  IF str = <<>> THEN <<>>
  ELSE IF Head(str) = " " THEN TrimLeft(Tail(str)) ELSE str

RECURSIVE TrimRight(_)
TrimRight(str) ==
  IF str = <<>> THEN <<>>
  ELSE IF str[Len(str)] = " " THEN TrimRight(SubSeq(str, 1, Len(str) - 1)) ELSE str

\* String.prototype.trim
Trim(str) == TrimRight(TrimLeft(str))

\* name || fallback, the trim forgotten
TrimOrUntrimmed(name, fallback) ==
  IF name = Undefined \/ name = <<>> THEN fallback ELSE name

\* name?.trim() || fallback
TrimOr(name, fallback) ==
  IF name = Undefined THEN fallback
  ELSE IF Trim(name) = <<>> THEN fallback ELSE Trim(name)

\* !x for a string-or-undefined x
Falsy(name) == name = Undefined \/ name = <<>>

(* ------------------------------------------------------------------ *)
(*  State                                                              *)
(* ------------------------------------------------------------------ *)

VARIABLES
  db,            \* the SQLite database and the process's connection to it
  clock,         \* the store's CURRENT_TIMESTAMP
  cache,         \* SWR's cache entry of "/api/groups": data and _c
  inflight,      \* the mutate() calls that await their network call
  started,       \* how many mutations the hook has been asked for
  fetch,         \* FETCH["/api/groups"]: the revalidation request in progress
  pendingClears, \* replaced revalidations a mutate() still waits for
  nowMs,         \* the browser's Date.now()
  writes,        \* how many requests other clients have sent
  env,           \* process.env of the server process
  _client,       \* db.ts: let _client: Client | undefined
  client,        \* turso.ts: let client: Client | undefined
  clientsBuilt,  \* createClient() calls of this process, per module
  executed,      \* statements this process has handed to execute()
  thrown,        \* what the last store call threw, "" when it returned
  groupCard,     \* GroupCard of one group: its useState values and its group prop
  memberRow,     \* MemberRow of one member: its useState values and its member prop
  calls,         \* calls of the on... props whose promise is pending
  invoked,       \* how many calls of the on... props the view has made
  running        \* createMember calls between their INSERT and their SELECT

serverVars == <<db, clock>>

clientVars == <<cache, inflight, started, fetch, pendingClears, nowMs, writes>>

processVars == <<env, _client, client, clientsBuilt, executed, thrown>>

viewVars == <<groupCard, memberRow, calls, invoked>>

callVars == <<running>>

outerVars == <<processVars, viewVars, callVars>>

vars ==
  <<db, clock, cache, inflight, started, fetch, pendingClears, nowMs, writes,
    outerVars>>

\* created_at as written by DEFAULT CURRENT_TIMESTAMP
SqlTime(t) == <<"sql", t>>

EmptyDb ==
  [ schema            |-> FALSE,   \* do the two tables exist
    groups            |-> {},
    members           |-> {},
    seqGroups         |-> 0,       \* sqlite_sequence of groups (AUTOINCREMENT)
    seqMembers        |-> 0,       \* sqlite_sequence of members
    foreign_keys      |-> FALSE,   \* PRAGMA foreign_keys of this connection
    last_insert_rowid |-> 0 ]      \* last_insert_rowid() of this connection

(* ------------------------------------------------------------------ *)
(*  SQL statements, as query() runs them                               *)
(* ------------------------------------------------------------------ *)

Rows(s, rows) == [s |-> s, ok |-> TRUE, rows |-> rows, err |-> ""]

Throw(s, msg) == [s |-> s, ok |-> FALSE, rows |-> <<>>, err |-> msg]

NoSuchTable == "no such table"

\* the id column without AUTOINCREMENT: the largest stored rowid plus one
InsertGroupRowid(s, n, now) ==
  IF ~s.schema THEN Throw(s, NoSuchTable)
  ELSE LET stored == {g.id : g \in s.groups}
           id == IF stored = {} THEN 1
                 ELSE (CHOOSE i \in stored : \A j \in stored : j <= i) + 1
           row == [id |-> id, name |-> n, created_at |-> SqlTime(now)]
       IN Rows([s EXCEPT !.groups = @ \cup {row}, !.seqGroups = id,
                         !.last_insert_rowid = id], <<>>)

\* INSERT INTO groups (name) VALUES (?);   -- no RETURNING clause: no rows
InsertGroup(s, n, now) ==
  IF ~s.schema THEN Throw(s, NoSuchTable)
  ELSE LET id == s.seqGroups + 1
           row == [id |-> id, name |-> n, created_at |-> SqlTime(now)]
       IN Rows([s EXCEPT !.groups = @ \cup {row}, !.seqGroups = id,
                         !.last_insert_rowid = id], <<>>)

\* SELECT id, name, created_at FROM groups WHERE id = ?;
SelectGroup(s, id) ==
  IF ~s.schema THEN Throw(s, NoSuchTable)
  ELSE IF \E g \in s.groups : g.id = id
       THEN Rows(s, << CHOOSE g \in s.groups : g.id = id >>)
       ELSE Rows(s, <<>>)

\* UPDATE groups SET name = ? WHERE id = ?;
UpdateGroupName(s, id, n) ==
  IF ~s.schema THEN Throw(s, NoSuchTable)
  ELSE Rows([s EXCEPT !.groups =
               {IF g.id = id THEN [g EXCEPT !.name = n] ELSE g : g \in @}], <<>>)

\* DELETE FROM groups WHERE id = ?;   -- ON DELETE CASCADE acts only while
\* foreign_keys is ON for the connection
DeleteGroupRow(s, id) ==
  IF ~s.schema THEN Throw(s, NoSuchTable)
  ELSE Rows([s EXCEPT !.groups = {g \in @ : g.id # id},
                      !.members = IF s.foreign_keys
                                  THEN {m \in @ : m.group_id # id}
                                  ELSE @], <<>>)

\* INSERT INTO members (group_id, name) VALUES (?, ?);
InsertMember(s, groupId, n, now) ==
  IF ~s.schema THEN Throw(s, NoSuchTable)
  ELSE IF s.foreign_keys /\ ~(\E g \in s.groups : g.id = groupId)
       THEN Throw(s, "FOREIGN KEY constraint failed")
       ELSE LET id == s.seqMembers + 1
                row == [id |-> id, group_id |-> groupId, name |-> n,
                        checked_in |-> 0, created_at |-> SqlTime(now)]
            IN Rows([s EXCEPT !.members = @ \cup {row}, !.seqMembers = id,
                              !.last_insert_rowid = id], <<>>)

\* SELECT ... FROM members WHERE id = ?;
SelectMember(s, id) ==
  IF ~s.schema THEN Throw(s, NoSuchTable)
  ELSE IF \E m \in s.members : m.id = id
       THEN Rows(s, << CHOOSE m \in s.members : m.id = id >>)
       ELSE Rows(s, <<>>)

\* checked_in is written by every UPDATE, as 0 when it was not given
UpdateMemberRowBoth(s, id, setName, n, setChecked, c) ==
  IF ~s.schema THEN Throw(s, NoSuchTable)
  ELSE Rows([s EXCEPT !.members =
               {IF m.id = id
                THEN [m EXCEPT !.name = IF setName THEN n ELSE @,
                               !.checked_in = c]
                ELSE m : m \in @}], <<>>)

\* UPDATE members SET [name = ?][,][checked_in = ?] WHERE id = ?;
UpdateMemberRow(s, id, setName, n, setChecked, c) ==
  IF ~s.schema THEN Throw(s, NoSuchTable)
  ELSE Rows([s EXCEPT !.members =
               {IF m.id = id
                THEN [m EXCEPT !.name = IF setName THEN n ELSE @,
                               !.checked_in = IF setChecked THEN c ELSE @]
                ELSE m : m \in @}], <<>>)

\* DELETE FROM members WHERE id = ?;
DeleteMemberRow(s, id) ==
  IF ~s.schema THEN Throw(s, NoSuchTable)
  ELSE Rows([s EXCEPT !.members = {m \in @ : m.id # id}], <<>>)

(* ------------------------------------------------------------------ *)
(*  Store functions (lib/db.ts)                                        *)
(* ------------------------------------------------------------------ *)

NoVal == <<>>

Ok(s, val) == [s |-> s, ok |-> TRUE, val |-> val, err |-> ""]

Fail(s, msg) == [s |-> s, ok |-> FALSE, val |-> NoVal, err |-> msg]

\* What reading a property of rows[0] throws when the statement returned no row.
TypeErrorUndefined == "Cannot read properties of undefined"

rowToGroup(row) ==
  [id |-> row.id, name |-> row.name, created_at |-> row.created_at]

\* checked_in is stored as INTEGER 0/1 and read back with Boolean(Number(..))
rowToMember(row) ==
  [id |-> row.id, group_id |-> row.group_id, name |-> row.name,
   checked_in |-> (row.checked_in # 0), created_at |-> row.created_at]

\* the tables dropped and created again
ensureSchemaRecreate(s) ==
  [s EXCEPT !.foreign_keys = TRUE, !.schema = TRUE, !.groups = {}, !.members = {}]

\* PRAGMA foreign_keys = ON; CREATE TABLE IF NOT EXISTS groups / members
ensureSchema(s) == [s EXCEPT !.foreign_keys = TRUE, !.schema = TRUE]

\* ORDER BY created_at ASC: rows with equal created_at come in rowid order
Before(a, b) ==
  \/ a.created_at[2] < b.created_at[2]
  \/ a.created_at[2] = b.created_at[2] /\ a.id < b.id

RECURSIVE OrderByCreatedAt(_)
OrderByCreatedAt(rows) ==
  IF rows = {} THEN <<>>
  ELSE LET first == CHOOSE r \in rows : \A o \in rows \ {r} : Before(r, o)
       IN <<first>> \o OrderByCreatedAt(rows \ {first})

MapSeq(seq, F(_)) == [i \in 1..Len(seq) |-> F(seq[i])]

\* The two SELECTs of getAllGroupsWithMembers joined through membersByGroup
JoinGroups(groupRows, memberRows) ==
  LET members == MapSeq(memberRows, rowToMember)
      withMembers(g) ==
        LET group == rowToGroup(g)
            mine(m) == m.group_id = group.id
        IN [id |-> group.id, name |-> group.name, created_at |-> group.created_at,
            members |-> SelectSeq(members, mine)]
  IN MapSeq(groupRows, withMembers)

getAllGroupsWithMembers(s) ==
  LET s1 == ensureSchema(s)
  IN Ok(s1, JoinGroups(OrderByCreatedAt(s1.groups), OrderByCreatedAt(s1.members)))

createGroup(s, name, now) ==
  LET s1 == ensureSchema(s)
      n == TrimOr(name, DefaultGroupName)
      q == InsertGroup(s1, n, now)
  IN IF ~q.ok THEN Fail(q.s, q.err)
     ELSE IF Len(q.rows) = 0 THEN Fail(q.s, TypeErrorUndefined)
     ELSE Ok(q.s, rowToGroup(q.rows[1]))

\* rows.length is not tested
updateGroupUnchecked(s, id, name) ==
  LET u == UpdateGroupName(s, id, Trim(name))
      q == SelectGroup(u.s, id)
  IN IF ~u.ok THEN Fail(u.s, u.err)
     ELSE IF ~q.ok THEN Fail(q.s, q.err)
     ELSE IF Len(q.rows) = 0 THEN Ok(q.s, NoVal)
     ELSE Ok(q.s, rowToGroup(q.rows[1]))

updateGroup(s, id, name) ==
  LET u == UpdateGroupName(s, id, Trim(name))
      q == SelectGroup(u.s, id)
  IN IF ~u.ok THEN Fail(u.s, u.err)
     ELSE IF ~q.ok THEN Fail(q.s, q.err)
     ELSE IF Len(q.rows) = 0 THEN Fail(q.s, "Group not found")
     ELSE Ok(q.s, rowToGroup(q.rows[1]))

deleteGroup(s, id) ==
  LET d == DeleteGroupRow(s, id)
  IN IF ~d.ok THEN Fail(d.s, d.err) ELSE Ok(d.s, NoVal)

createMember(s, groupId, name, now) ==
  LET n == TrimOr(name, DefaultMemberName)
      i == InsertMember(s, groupId, n, now)
      q == SelectMember(i.s, i.s.last_insert_rowid)
  IN IF ~i.ok THEN Fail(i.s, i.err)
     ELSE IF ~q.ok THEN Fail(q.s, q.err)
     ELSE IF Len(q.rows) = 0 THEN Fail(q.s, TypeErrorUndefined)
     ELSE Ok(q.s, rowToMember(q.rows[1]))

\* the fields tested for truth, not for presence
updateMemberTruthy(s, id, hasName, name, hasChecked, checked_in) ==
  IF ~hasName /\ ~(hasChecked /\ checked_in) THEN Fail(s, "No fields to update")
  ELSE LET u == UpdateMemberRow(s, id, hasName, IF hasName THEN Trim(name) ELSE name,
                                hasChecked, IF checked_in THEN 1 ELSE 0)
           q == SelectMember(u.s, id)
       IN IF ~u.ok THEN Fail(u.s, u.err)
          ELSE IF ~q.ok THEN Fail(q.s, q.err)
          ELSE IF Len(q.rows) = 0 THEN Fail(q.s, "Member not found")
          ELSE Ok(q.s, rowToMember(q.rows[1]))

\* data.name / data.checked_in are Undefined / absent when not provided
updateMember(s, id, hasName, name, hasChecked, checked_in) ==
  IF ~hasName /\ ~hasChecked THEN Fail(s, "No fields to update")
  ELSE LET u == UpdateMemberRow(s, id, hasName, IF hasName THEN Trim(name) ELSE name,
                                hasChecked, IF checked_in THEN 1 ELSE 0)
           q == SelectMember(u.s, id)
       IN IF ~u.ok THEN Fail(u.s, u.err)
          ELSE IF ~q.ok THEN Fail(q.s, q.err)
          ELSE IF Len(q.rows) = 0 THEN Fail(q.s, "Member not found")
          ELSE Ok(q.s, rowToMember(q.rows[1]))

deleteMember(s, id) ==
  LET d == DeleteMemberRow(s, id)
  IN IF ~d.ok THEN Fail(d.s, d.err) ELSE Ok(d.s, NoVal)

(* ------------------------------------------------------------------ *)
(*  API handlers                                                       *)
(* ------------------------------------------------------------------ *)

Response(op, status, body, error) ==
  [op |-> op, status |-> status, body |-> body, error |-> error]

\* the catch block forgets { status: 500 }
ReplyOkStatus(op, r, okStatus) ==
  [s |-> r.s,
   resp |-> IF r.ok THEN Response(op, okStatus, r.val, "")
            ELSE Response(op, okStatus, NoVal, r.err)]

\* NextResponse.json of a store result, or the catch block's 500
Reply(op, r, okStatus) ==
  [s |-> r.s,
   resp |-> IF r.ok THEN Response(op, okStatus, r.val, "")
            ELSE Response(op, 500, NoVal, r.err)]

BadRequest(s, op, msg) == [s |-> s, resp |-> Response(op, 400, NoVal, msg)]

GroupsGET(s) == Reply("GET /groups", getAllGroupsWithMembers(s), 200)

\* an unparsable body is read as {}
GroupsPOST(s, parsable, name, now) ==
  Reply("POST /groups", createGroup(s, IF parsable THEN name ELSE Undefined, now), 201)

\* id = 0 stands for an id that is absent or zero
GroupsPUT(s, parsable, id, name) ==
  IF ~parsable THEN Reply("PUT /groups", Fail(s, "Unexpected token"), 200)
  ELSE IF id = 0 \/ Falsy(name)
       THEN BadRequest(s, "PUT /groups", "id and name are required")
       ELSE Reply("PUT /groups", updateGroup(s, id, name), 200)

GroupsDELETE(s, hasId, id) ==
  IF ~hasId THEN BadRequest(s, "DELETE /groups", "id is required")
  ELSE LET r == deleteGroup(s, id)
       IN Reply("DELETE /groups", [r EXCEPT !.val = "ok"], 200)

MembersPOST(s, parsable, groupId, name, now) ==
  IF ~parsable THEN Reply("POST /members", Fail(s, "Unexpected token"), 201)
  ELSE IF groupId = 0
       THEN BadRequest(s, "POST /members", "group_id is required")
       ELSE Reply("POST /members", createMember(s, groupId, name, now), 201)

MembersPUT(s, parsable, id, hasName, name, hasChecked, checked_in) ==
  IF ~parsable THEN Reply("PUT /members", Fail(s, "Unexpected token"), 200)
  ELSE IF id = 0
       THEN BadRequest(s, "PUT /members", "id is required")
       ELSE Reply("PUT /members",
                  updateMember(s, id, hasName, name, hasChecked, checked_in), 200)

MembersDELETE(s, hasId, id) ==
  IF ~hasId THEN BadRequest(s, "DELETE /members", "id is required")
  ELSE LET r == deleteMember(s, id)
       IN Reply("DELETE /members", [r EXCEPT !.val = "ok"], 200)

(* ------------------------------------------------------------------ *)
(*  Requests and their routing                                         *)
(* ------------------------------------------------------------------ *)

\* An id of 0 stands for an id that is absent or zero.
GroupIdArgs == 0..MaxGroups

MemberIdArgs == 0..MaxMembers

\* { name?, checked_in? } of PUT /members and of editMember
MemberUpdates ==
  {u \in [hasName : BOOLEAN, name : NameArgs, hasChecked : BOOLEAN, checked_in : BOOLEAN] :
     /\ u.hasName <=> (u.name # Undefined)
     /\ ~u.hasChecked => ~u.checked_in}

GetGroupsRequests == {[op |-> "GET /groups"]}

PostGroupsRequests ==
  {[op |-> "POST /groups", parsable |-> TRUE, name |-> n] : n \in NameArgs}
  \cup {[op |-> "POST /groups", parsable |-> FALSE, name |-> Undefined]}

PutGroupsRequests ==
  {[op |-> "PUT /groups", parsable |-> TRUE, id |-> i, name |-> n] :
     i \in GroupIdArgs, n \in NameArgs}
  \cup {[op |-> "PUT /groups", parsable |-> FALSE, id |-> 0, name |-> Undefined]}

DeleteGroupsRequests ==
  {[op |-> "DELETE /groups", hasId |-> TRUE, id |-> i] : i \in GroupIdArgs}
  \cup {[op |-> "DELETE /groups", hasId |-> FALSE, id |-> 0]}

PostMembersRequests ==
  {[op |-> "POST /members", parsable |-> TRUE, group_id |-> g, name |-> n] :
     g \in GroupIdArgs, n \in NameArgs}
  \cup {[op |-> "POST /members", parsable |-> FALSE, group_id |-> 0, name |-> Undefined]}

PutMembersRequests ==
  {[op |-> "PUT /members", parsable |-> TRUE, id |-> i, updates |-> u] :
     i \in MemberIdArgs, u \in MemberUpdates}
  \cup {[op |-> "PUT /members", parsable |-> FALSE, id |-> 0,
         updates |-> [hasName |-> FALSE, name |-> Undefined,
                      hasChecked |-> FALSE, checked_in |-> FALSE]]}

DeleteMembersRequests ==
  {[op |-> "DELETE /members", hasId |-> TRUE, id |-> i] : i \in MemberIdArgs}
  \cup {[op |-> "DELETE /members", hasId |-> FALSE, id |-> 0]}

MutatingRequests ==
  PostGroupsRequests \cup PutGroupsRequests \cup DeleteGroupsRequests
  \cup PostMembersRequests \cup PutMembersRequests \cup DeleteMembersRequests

Requests == GetGroupsRequests \cup MutatingRequests

\* The framework's dispatch of (resource, verb) to the exported handler
Route(s, req, now) ==
  CASE req.op = "GET /groups" -> GroupsGET(s)
    [] req.op = "POST /groups" -> GroupsPOST(s, req.parsable, req.name, now)
    [] req.op = "PUT /groups" -> GroupsPUT(s, req.parsable, req.id, req.name)
    [] req.op = "DELETE /groups" -> GroupsDELETE(s, req.hasId, req.id)
    [] req.op = "POST /members" ->
         MembersPOST(s, req.parsable, req.group_id, req.name, now)
    [] req.op = "PUT /members" ->
         MembersPUT(s, req.parsable, req.id, req.updates.hasName, req.updates.name,
                    req.updates.hasChecked, req.updates.checked_in)
    [] req.op = "DELETE /members" -> MembersDELETE(s, req.hasId, req.id)

\* Rows may be created while the tables' id counters are within the bounds.
WithinBounds(s, req) ==
  /\ req.op = "POST /groups" => s.seqGroups < MaxGroups
  /\ req.op = "POST /members" => s.seqMembers < MaxMembers

\* res.ok
Success(status) == status \in 200..299

(* ------------------------------------------------------------------ *)
(*  Sync Engine (lib/useGroups.ts): the cached snapshot                *)
(* ------------------------------------------------------------------ *)

\* A value that may be undefined
Undef == [defined |-> FALSE, value |-> <<>>]

Def(v) == [defined |-> TRUE, value |-> v]

\* x ?? []
OrEmpty(x) == IF x.defined THEN x.value ELSE <<>>

\* created_at of a placeholder: new Date().toISOString()
IsoTime(t) == <<"iso", t>>

FilterSeq(seq, Keep(_)) == SelectSeq(seq, Keep)

NoFetch ==
  [phase |-> "none", stale |-> FALSE, clear |-> FALSE, ok |-> FALSE, body |-> <<>>,
   forced |-> FALSE, alone |-> FALSE]

NewFetch(clear) ==
  [phase |-> "sent", stale |-> FALSE, clear |-> clear, ok |-> FALSE, body |-> <<>>,
   forced |-> FALSE, alone |-> FALSE]

\* useSWR has just mounted: nothing cached, the first fetch is on its way
ClientInit ==
  /\ cache = [data |-> Undef, _c |-> Undef]
  /\ inflight = {}
  /\ started = 0
  /\ fetch = NewFetch(FALSE)
  /\ pendingClears = 0
  /\ nowMs = 1
  /\ writes = 0

(* ------------------------------------------------------------------ *)
(*  Sync Engine: what each mutation publishes, sends and splices in    *)
(* ------------------------------------------------------------------ *)

NoUpdates ==
  [hasName |-> FALSE, name |-> Undefined, hasChecked |-> FALSE, checked_in |-> FALSE]

\* The arguments the view passes
CallNames == {Undefined, <<" ", "A", " ">>}

CallUpdates ==
  {[NoUpdates EXCEPT !.hasChecked = TRUE, !.checked_in = TRUE],
   [NoUpdates EXCEPT !.hasName = TRUE, !.name = <<" ", "A", " ">>]}

Call(kind, id, groupId, name, updates) ==
  [kind |-> kind, id |-> id, groupId |-> groupId, name |-> name, updates |-> updates]

\* Every call is about group 1 and its member 1, which the store may hold or not
Calls ==
  {Call("addGroup", 0, 0, n, NoUpdates) : n \in CallNames}
  \cup {Call("renameGroup", 1, 0, <<" ", "A", " ">>, NoUpdates)}
  \cup {Call("removeGroup", 1, 0, Undefined, NoUpdates)}
  \cup {Call("addMember", 0, 1, n, NoUpdates) : n \in CallNames}
  \cup {Call("editMember", 1, 1, Undefined, u) : u \in CallUpdates}
  \cup {Call("removeMember", 1, 1, Undefined, NoUpdates)}

\* The body of the request the mutator's fetch sends (JSON.stringify leaves
\* undefined properties out)
RequestOf(m) ==
  CASE m.kind = "addGroup" ->
         [op |-> "POST /groups", parsable |-> TRUE, name |-> m.name]
    [] m.kind = "renameGroup" ->
         [op |-> "PUT /groups", parsable |-> TRUE, id |-> m.id, name |-> m.name]
    [] m.kind = "removeGroup" ->
         [op |-> "DELETE /groups", hasId |-> TRUE, id |-> m.id]
    [] m.kind = "addMember" ->
         [op |-> "POST /members", parsable |-> TRUE, group_id |-> m.groupId, name |-> m.name]
    [] m.kind = "editMember" ->
         [op |-> "PUT /members", parsable |-> TRUE, id |-> m.id, updates |-> m.updates]
    [] m.kind = "removeMember" ->
         [op |-> "DELETE /members", hasId |-> TRUE, id |-> m.id]

\* { ...m, ...updates }
Merge(member, updates) ==
  [member EXCEPT !.name = IF updates.hasName THEN updates.name ELSE @,
                 !.checked_in = IF updates.hasChecked THEN updates.checked_in ELSE @]

\* the optimisticData option left out: the data stays as it is shown
OptimisticDataUnchanged(m, data) == data

\* The optimisticData option of each mutation, computed from the hook's data
OptimisticData(m, data) ==
  CASE m.kind = "addGroup" ->
         Append(data, [id |-> m.tempId, name |-> TrimOr(m.name, DefaultGroupName),
                       created_at |-> IsoTime(m.now), members |-> <<>>])
    [] m.kind = "renameGroup" ->
         LET rename(g) == IF g.id = m.id THEN [g EXCEPT !.name = m.name] ELSE g
         IN MapSeq(data, rename)
    [] m.kind = "removeGroup" ->
         LET keep(g) == g.id # m.id IN FilterSeq(data, keep)
    [] m.kind = "addMember" ->
         LET optimisticMember ==
               [id |-> m.tempId, group_id |-> m.groupId,
                name |-> TrimOr(m.name, DefaultMemberName),
                checked_in |-> FALSE, created_at |-> IsoTime(m.now)]
             add(g) == IF g.id = m.groupId
                       THEN [g EXCEPT !.members = Append(@, optimisticMember)] ELSE g
         IN MapSeq(data, add)
    [] m.kind = "editMember" ->
         LET edit(x) == IF x.id = m.id THEN Merge(x, m.updates) ELSE x
             inGroup(g) == IF g.id = m.groupId
                           THEN [g EXCEPT !.members = MapSeq(@, edit)] ELSE g
         IN MapSeq(data, inGroup)
    [] m.kind = "removeMember" ->
         LET keep(x) == x.id # m.id
             inGroup(g) == IF g.id = m.groupId
                           THEN [g EXCEPT !.members = FilterSeq(@, keep)] ELSE g
         IN MapSeq(data, inGroup)

AsGroup(body) == [id |-> body.id, name |-> body.name, created_at |-> body.created_at]

AsMember(body) ==
  [id |-> body.id, group_id |-> body.group_id, name |-> body.name,
   checked_in |-> body.checked_in, created_at |-> body.created_at]

\* What the mutator returns when its response is ok: the response spliced
\* into `current`, the snapshot mutate() hands to the mutator
Spliced(m, current, body) ==
  CASE m.kind = "addGroup" ->
         LET created == AsGroup(body)
             replace(g) == IF g.id = m.tempId
                           THEN [id |-> created.id, name |-> created.name,
                                 created_at |-> created.created_at, members |-> <<>>]
                           ELSE g
         IN MapSeq(current, replace)
    [] m.kind = "renameGroup" ->
         LET updated == AsGroup(body)
             replace(g) == IF g.id = m.id
                           THEN [g EXCEPT !.id = updated.id, !.name = updated.name,
                                          !.created_at = updated.created_at]
                           ELSE g
         IN MapSeq(current, replace)
    [] m.kind = "removeGroup" ->
         LET keep(g) == g.id # m.id IN FilterSeq(current, keep)
    [] m.kind = "addMember" ->
         LET created == AsMember(body)
             replace(x) == IF x.id = m.tempId THEN created ELSE x
             inGroup(g) == IF g.id = m.groupId
                           THEN [g EXCEPT !.members = MapSeq(@, replace)] ELSE g
         IN MapSeq(current, inGroup)
    [] m.kind = "editMember" ->
         LET updated == AsMember(body)
             replace(x) == IF x.id = m.id THEN updated ELSE x
             inGroup(g) == IF g.id = m.groupId
                           THEN [g EXCEPT !.members = MapSeq(@, replace)] ELSE g
         IN MapSeq(current, inGroup)
    [] m.kind = "removeMember" ->
         LET keep(x) == x.id # m.id
             inGroup(g) == IF g.id = m.groupId
                           THEN [g EXCEPT !.members = FilterSeq(@, keep)] ELSE g
         IN MapSeq(current, inGroup)

\* A response body as the mutator reads it with res.json()
NoBody ==
  [id |-> 0, group_id |-> 0, name |-> Undefined, checked_in |-> FALSE,
   created_at |-> SqlTime(0)]

BodyOf(m, resp) ==
  IF ~Success(resp.status) THEN NoBody
  ELSE CASE m.kind \in {"addGroup", "renameGroup"} ->
              [NoBody EXCEPT !.id = resp.body.id, !.name = resp.body.name,
                             !.created_at = resp.body.created_at]
         [] m.kind \in {"addMember", "editMember"} -> AsMember(resp.body)
         [] OTHER -> NoBody

(* ------------------------------------------------------------------ *)
(*  Store calls of concurrent requests, statement by statement         *)
(* ------------------------------------------------------------------ *)

\* createMember after its first await: the SELECT ... WHERE id =
\* last_insert_rowid() on the process's connection, and rowToMember(rows[0])
createMemberSelected(s) ==
  LET q == SelectMember(s, s.last_insert_rowid)
  IN IF ~q.ok THEN Fail(q.s, q.err)
     ELSE IF Len(q.rows) = 0 THEN Fail(q.s, TypeErrorUndefined)
     ELSE Ok(q.s, rowToMember(q.rows[1]))

\* createMember up to its first await: the INSERT of a request is executed
CreateMemberInsert ==
  /\ db.seqMembers < MaxMembers
  /\ \E groupId \in 1..MaxGroups, name \in NameArgs :
        LET n == TrimOr(name, DefaultMemberName)
            i == InsertMember(db, groupId, n, clock)
        IN /\ db' = i.s
           /\ running' = IF i.ok
                         THEN running \cup {[id |-> i.s.last_insert_rowid,
                                             group_id |-> groupId, name |-> n]}
                         ELSE running
  /\ UNCHANGED <<clock, clientVars, processVars, viewVars>>

\* The SELECT of a request that has inserted is executed, and the call returns
CreateMemberSelect ==
  /\ \E c \in running : running' = running \ {c}
  /\ UNCHANGED <<serverVars, clientVars, processVars, viewVars>>

\* createGroup of another request runs
CreateGroupCall ==
  /\ db.seqGroups < MaxGroups
  /\ db' = createGroup(db, Undefined, clock).s
  /\ UNCHANGED <<clock, clientVars, processVars, viewVars, callVars>>

(* ------------------------------------------------------------------ *)
(*  The view: GroupCard and MemberRow (app/GroupCard.tsx)               *)
(* ------------------------------------------------------------------ *)

\* Calls of the on... props the view makes in a run.
MaxViewCalls == 3

\* What the user may have typed into a name input
InputValues == {<<>>, <<" ">>, <<" ", "A", " ">>, <<"B">>}

\* Names the store may hold for the group and the member
ShownNames == {<<"A">>, <<"B">>}

\* useState(false), useState(group.name), ... of a groupCard that mounts
FreshCard(group) ==
  [mounted |-> TRUE, editingName |-> FALSE, nameValue |-> group.name,
   confirmDelete |-> FALSE, saving |-> FALSE, group |-> group]

\* The group has left the list: its groupCard and the state of the groupCard are gone
Unmounted(c) ==
  [mounted |-> FALSE, editingName |-> FALSE, nameValue |-> <<>>,
   confirmDelete |-> FALSE, saving |-> FALSE, group |-> c.group]

FreshRow(member) ==
  [mounted |-> TRUE, editing |-> FALSE, nameVal |-> member.name, member |-> member]

UnmountedRow(r) ==
  [mounted |-> FALSE, editing |-> FALSE, nameVal |-> <<>>, member |-> r.member]

ViewInit ==
  /\ groupCard = FreshCard([id |-> 1, name |-> <<"A">>])
  /\ memberRow = FreshRow([id |-> 1, name |-> <<"A">>])
  /\ calls = {}
  /\ invoked = 0

\* A call of a prop: which one, with what name, and the name the component
\* had rendered (its closure's group.name or member.name)
PropCall(fn, id, name, from) ==
  [fn |-> fn, k |-> invoked + 1, id |-> id, name |-> name, from |-> from]

\* useEffect(() => { if (!editingName) setNameValue(group.name) })
SyncCard(c) == IF c.editingName THEN c ELSE [c EXCEPT !.nameValue = c.group.name]

\* useEffect(() => { if (!editing) setNameVal(member.name) })
SyncRow(r) == IF r.editing THEN r ELSE [r EXCEPT !.nameVal = r.member.name]

\* onClick of the group's name
GroupNameClick ==
  /\ groupCard.mounted /\ ~groupCard.editingName
  /\ groupCard' = [groupCard EXCEPT !.editingName = TRUE]
  /\ UNCHANGED <<memberRow, calls, invoked, serverVars, clientVars, processVars, callVars>>

\* onChange of the group's name input
GroupNameChange ==
  /\ groupCard.mounted /\ groupCard.editingName
  /\ \E v \in InputValues : groupCard' = [groupCard EXCEPT !.nameValue = v]
  /\ UNCHANGED <<memberRow, calls, invoked, serverVars, clientVars, processVars, callVars>>

\* onKeyDown with Escape
GroupNameEscape ==
  /\ groupCard.mounted /\ groupCard.editingName
  /\ groupCard' = [groupCard EXCEPT !.nameValue = groupCard.group.name, !.editingName = FALSE]
  /\ UNCHANGED <<memberRow, calls, invoked, serverVars, clientVars, processVars, callVars>>

\* saveName that passes on whatever was typed
GroupCardSaveNameUnchecked ==
  /\ groupCard.mounted /\ groupCard.editingName
  /\ invoked < MaxViewCalls
  /\ groupCard' = SyncCard([groupCard EXCEPT !.editingName = FALSE, !.saving = TRUE,
                                   !.group.name = groupCard.nameValue])
  /\ calls' = calls \cup {PropCall("onRenameGroup", groupCard.group.id,
                                   groupCard.nameValue, groupCard.group.name)}
  /\ invoked' = invoked + 1
  /\ UNCHANGED <<memberRow, serverVars, clientVars, processVars, callVars>>

\* GroupCard.saveName (onBlur, or onKeyDown with Enter).  renameGroup shows
\* the new name before its request is sent.
GroupCardSaveName ==
  /\ groupCard.mounted /\ groupCard.editingName
  /\ LET trimmed == Trim(groupCard.nameValue)
     IN IF trimmed # <<>> /\ trimmed # groupCard.group.name
        THEN /\ invoked < MaxViewCalls
             /\ groupCard' = SyncCard([groupCard EXCEPT !.editingName = FALSE, !.saving = TRUE,
                                              !.group.name = trimmed])
             /\ calls' = calls \cup {PropCall("onRenameGroup", groupCard.group.id,
                                              trimmed, groupCard.group.name)}
             /\ invoked' = invoked + 1
        ELSE /\ groupCard' = [groupCard EXCEPT !.editingName = FALSE,
                                     !.nameValue = groupCard.group.name]
             /\ UNCHANGED <<calls, invoked>>
  /\ UNCHANGED <<memberRow, serverVars, clientVars, processVars, callVars>>

\* onRenameGroup resolves: finally { setSaving(false) }
RenameGroupResolves ==
  /\ \E c \in calls :
        /\ c.fn = "onRenameGroup"
        /\ calls' = calls \ {c}
  /\ groupCard' = IF groupCard.mounted THEN [groupCard EXCEPT !.saving = FALSE] ELSE groupCard
  /\ UNCHANGED <<memberRow, invoked, serverVars, clientVars, processVars, callVars>>

\* onRenameGroup rejects, after the cache has rolled the name back or, for a
\* superseded mutation, has not: catch { setNameValue(group.name) } finally
RenameGroupRejects ==
  /\ \E c \in calls, rollback \in BOOLEAN :
        /\ c.fn = "onRenameGroup"
        /\ calls' = calls \ {c}
        /\ groupCard' = IF groupCard.mounted
                   THEN [SyncCard([groupCard EXCEPT !.group.name =
                                     IF rollback THEN c.from ELSE @])
                           EXCEPT !.nameValue = c.from, !.saving = FALSE]
                   ELSE groupCard
  /\ UNCHANGED <<memberRow, invoked, serverVars, clientVars, processVars, callVars>>

\* A revalidation brings a name another client has stored
GroupRenamedElsewhere ==
  /\ groupCard.mounted
  /\ \E n \in ShownNames \ {groupCard.group.name} :
        groupCard' = SyncCard([groupCard EXCEPT !.group.name = n])
  /\ UNCHANGED <<memberRow, calls, invoked, serverVars, clientVars, processVars, callVars>>

\* handleDelete that asks for no confirmation
handleDeleteAtOnce ==
  /\ groupCard.mounted
  /\ invoked < MaxViewCalls
  /\ calls' = calls \cup {PropCall("onDeleteGroup", groupCard.group.id, Undefined,
                                   groupCard.group.name)}
  /\ invoked' = invoked + 1
  /\ groupCard' = Unmounted(groupCard)
  /\ memberRow' = UnmountedRow(memberRow)
  /\ UNCHANGED <<serverVars, clientVars, processVars, callVars>>

\* onClick of the delete button.  removeGroup takes the group out of the
\* list before its request is sent, so the groupCard unmounts with its rows.
handleDelete ==
  /\ groupCard.mounted
  /\ IF ~groupCard.confirmDelete
     THEN /\ groupCard' = [groupCard EXCEPT !.confirmDelete = TRUE]
          /\ UNCHANGED <<memberRow, calls, invoked>>
     ELSE /\ invoked < MaxViewCalls
          /\ calls' = calls \cup {PropCall("onDeleteGroup", groupCard.group.id, Undefined,
                                           groupCard.group.name)}
          /\ invoked' = invoked + 1
          /\ groupCard' = Unmounted(groupCard)
          /\ memberRow' = UnmountedRow(memberRow)
  /\ UNCHANGED <<serverVars, clientVars, processVars, callVars>>

\* onBlur of the delete button
DeleteButtonBlur ==
  /\ groupCard.mounted
  /\ groupCard' = [groupCard EXCEPT !.confirmDelete = FALSE]
  /\ UNCHANGED <<memberRow, calls, invoked, serverVars, clientVars, processVars, callVars>>

\* onDeleteGroup resolves: finally { setSaving(false); setConfirmDelete(false) }
DeleteGroupResolves ==
  /\ \E c \in calls :
        /\ c.fn = "onDeleteGroup"
        /\ calls' = calls \ {c}
  /\ groupCard' = IF groupCard.mounted
             THEN [groupCard EXCEPT !.saving = FALSE, !.confirmDelete = FALSE]
             ELSE groupCard
  /\ UNCHANGED <<memberRow, invoked, serverVars, clientVars, processVars, callVars>>

\* onDeleteGroup rejects; a rollback puts the group back in the list, and a
\* new groupCard mounts
DeleteGroupRejects ==
  /\ \E c \in calls, rollback \in BOOLEAN :
        /\ c.fn = "onDeleteGroup"
        /\ calls' = calls \ {c}
        /\ IF groupCard.mounted
           THEN /\ groupCard' = [groupCard EXCEPT !.saving = FALSE, !.confirmDelete = FALSE]
                /\ memberRow' = memberRow
           ELSE IF rollback
           THEN /\ groupCard' = FreshCard([groupCard.group EXCEPT !.name = c.from])
                /\ memberRow' = FreshRow(memberRow.member)
           ELSE UNCHANGED <<groupCard, memberRow>>
  /\ UNCHANGED <<invoked, serverVars, clientVars, processVars, callVars>>

\* onClick of the member's name
MemberNameClick ==
  /\ memberRow.mounted /\ ~memberRow.editing
  /\ memberRow' = [memberRow EXCEPT !.editing = TRUE]
  /\ UNCHANGED <<groupCard, calls, invoked, serverVars, clientVars, processVars, callVars>>

\* onChange of the member's name input
MemberNameChange ==
  /\ memberRow.mounted /\ memberRow.editing
  /\ \E v \in InputValues : memberRow' = [memberRow EXCEPT !.nameVal = v]
  /\ UNCHANGED <<groupCard, calls, invoked, serverVars, clientVars, processVars, callVars>>

\* onKeyDown with Escape
MemberNameEscape ==
  /\ memberRow.mounted /\ memberRow.editing
  /\ memberRow' = [memberRow EXCEPT !.nameVal = memberRow.member.name, !.editing = FALSE]
  /\ UNCHANGED <<groupCard, calls, invoked, serverVars, clientVars, processVars, callVars>>

\* MemberRow.saveName (onBlur, or onKeyDown with Enter).  editMember shows
\* the new name before its request is sent.
MemberRowSaveName ==
  /\ memberRow.mounted /\ memberRow.editing
  /\ LET trimmed == Trim(memberRow.nameVal)
     IN IF trimmed # <<>> /\ trimmed # memberRow.member.name
        THEN /\ invoked < MaxViewCalls
             /\ memberRow' = SyncRow([memberRow EXCEPT !.editing = FALSE, !.member.name = trimmed])
             /\ calls' = calls \cup {PropCall("onEditMember", memberRow.member.id,
                                              trimmed, memberRow.member.name)}
             /\ invoked' = invoked + 1
        ELSE /\ memberRow' = [memberRow EXCEPT !.editing = FALSE, !.nameVal = memberRow.member.name]
             /\ UNCHANGED <<calls, invoked>>
  /\ UNCHANGED <<groupCard, serverVars, clientVars, processVars, callVars>>

\* onEdit resolves: nothing follows the await
EditMemberResolves ==
  /\ \E c \in calls :
        /\ c.fn = "onEditMember"
        /\ calls' = calls \ {c}
  /\ UNCHANGED <<groupCard, memberRow, invoked, serverVars, clientVars, processVars, callVars>>

\* onEdit rejects: catch { setNameVal(member.name) }
EditMemberRejects ==
  /\ \E c \in calls, rollback \in BOOLEAN :
        /\ c.fn = "onEditMember"
        /\ calls' = calls \ {c}
        /\ memberRow' = IF memberRow.mounted
                  THEN [SyncRow([memberRow EXCEPT !.member.name =
                                   IF rollback THEN c.from ELSE @])
                          EXCEPT !.nameVal = c.from]
                  ELSE memberRow
  /\ UNCHANGED <<groupCard, invoked, serverVars, clientVars, processVars, callVars>>

\* A revalidation brings a name another client has stored
MemberRenamedElsewhere ==
  /\ memberRow.mounted
  /\ \E n \in ShownNames \ {memberRow.member.name} :
        memberRow' = SyncRow([memberRow EXCEPT !.member.name = n])
  /\ UNCHANGED <<groupCard, calls, invoked, serverVars, clientVars, processVars, callVars>>

(* ------------------------------------------------------------------ *)
(*  The store client: getClient (db.ts) and getTursoClient (turso.ts)  *)
(* ------------------------------------------------------------------ *)

\* Statements a process executes in a run.
MaxStatements == 2

\* An environment variable is unset, the empty string, or has a value
EnvValues == {Undefined, <<>>, <<"v">>}

Envs ==
  [DATABASE_URL : EnvValues, POSTGRES_URL : EnvValues,
   TURSO_AUTH_TOKEN : EnvValues, DATABASE_AUTH_TOKEN : EnvValues]

\* a ?? b
Nullish(a, b) == IF a = Undefined THEN b ELSE a

DbUrlNotSet == "DATABASE_URL (or POSTGRES_URL) environment variable is not set"

UrlNotSet == "DATABASE_URL environment variable is not set"

TokenNotSet == "TURSO_AUTH_TOKEN environment variable is not set"

\* createClient({ url, authToken })
createClient(url, authToken) == Def([url |-> url, authToken |-> authToken])

\* getClient that builds a client at every call
getClientUncached(c, e) ==
  LET url == Nullish(e.DATABASE_URL, e.POSTGRES_URL)
      authToken == Nullish(e.TURSO_AUTH_TOKEN, e.DATABASE_AUTH_TOKEN)
  IN IF Falsy(url)
     THEN [ok |-> FALSE, client |-> c, built |-> 0, err |-> DbUrlNotSet]
     ELSE [ok |-> TRUE, client |-> createClient(url, authToken), built |-> 1, err |-> ""]

\* getClient() with _client = c and process.env = e: what it returns or
\* throws, what _client is afterwards and how many clients it has built
getClient(c, e) ==
  IF ~c.defined
  THEN LET url == Nullish(e.DATABASE_URL, e.POSTGRES_URL)
           authToken == Nullish(e.TURSO_AUTH_TOKEN, e.DATABASE_AUTH_TOKEN)
       IN IF Falsy(url)
          THEN [ok |-> FALSE, client |-> c, built |-> 0, err |-> DbUrlNotSet]
          ELSE [ok |-> TRUE, client |-> createClient(url, authToken), built |-> 1,
                err |-> ""]
  ELSE [ok |-> TRUE, client |-> c, built |-> 0, err |-> ""]

getTursoClient(c, e) ==
  IF ~c.defined
  THEN LET url == e.DATABASE_URL
           authToken == e.TURSO_AUTH_TOKEN
       IN IF Falsy(url)
          THEN [ok |-> FALSE, client |-> c, built |-> 0, err |-> UrlNotSet]
          ELSE IF Falsy(authToken)
          THEN [ok |-> FALSE, client |-> c, built |-> 0, err |-> TokenNotSet]
          ELSE [ok |-> TRUE, client |-> createClient(url, authToken), built |-> 1,
                err |-> ""]
  ELSE [ok |-> TRUE, client |-> c, built |-> 0, err |-> ""]

\* query(statement, args): getClient().execute(...)
query ==
  /\ executed < MaxStatements
  /\ \E r \in {getClient(_client, env)} :
        /\ _client' = r.client
        /\ clientsBuilt' = [clientsBuilt EXCEPT !.db = @ + r.built]
        /\ executed' = IF r.ok THEN executed + 1 ELSE executed
        /\ thrown' = r.err
  /\ UNCHANGED <<env, client, serverVars, clientVars, viewVars, callVars>>

\* a caller of turso.ts asks for the client
UseTursoClient ==
  /\ \E r \in {getTursoClient(client, env)} :
        /\ client' = r.client
        /\ clientsBuilt' = [clientsBuilt EXCEPT !.turso = @ + r.built]
        /\ thrown' = r.err
  /\ UNCHANGED <<env, _client, executed, serverVars, clientVars, viewVars, callVars>>

\* The process ends and a new one starts, with the environment of its deploy
ProcessStart ==
  /\ env' \in Envs
  /\ _client' = Undef
  /\ client' = Undef
  /\ clientsBuilt' = [db |-> 0, turso |-> 0]
  /\ executed' = 0
  /\ thrown' = ""
  /\ UNCHANGED <<serverVars, clientVars, viewVars, callVars>>

\* A process that has made no store call yet
ProcessInit ==
  /\ _client = Undef
  /\ client = Undef
  /\ clientsBuilt = [db |-> 0, turso |-> 0]
  /\ executed = 0
  /\ thrown = ""

\* The configured deployment the other layers run in
OuterInit ==
  /\ env = [DATABASE_URL |-> <<"v">>, POSTGRES_URL |-> Undefined,
            TURSO_AUTH_TOKEN |-> <<"v">>, DATABASE_AUTH_TOKEN |-> Undefined]
  /\ ProcessInit
  /\ ViewInit
  /\ running = {}

StoreClientInit ==
  /\ db = EmptyDb
  /\ clock = 0
  /\ ClientInit
  /\ env \in Envs
  /\ ProcessInit
  /\ ViewInit
  /\ running = {}

StoreClientNext ==
  \/ query
  \/ UseTursoClient
  \/ ProcessStart

StoreClientSpec == StoreClientInit /\ [][StoreClientNext]_vars

\* The view of one group and one member, over a configured deployment
ViewNext ==
  \/ GroupNameClick
  \/ GroupNameChange
  \/ GroupNameEscape
  \/ GroupCardSaveName
  \/ RenameGroupResolves
  \/ RenameGroupRejects
  \/ GroupRenamedElsewhere
  \/ handleDelete
  \/ DeleteButtonBlur
  \/ DeleteGroupResolves
  \/ DeleteGroupRejects
  \/ MemberNameClick
  \/ MemberNameChange
  \/ MemberNameEscape
  \/ MemberRowSaveName
  \/ EditMemberResolves
  \/ EditMemberRejects
  \/ MemberRenamedElsewhere

ViewSpecInit ==
  /\ db = EmptyDb
  /\ clock = 0
  /\ ClientInit
  /\ OuterInit

ViewSpec == ViewSpecInit /\ [][ViewNext]_vars

(* ------------------------------------------------------------------ *)
(*  The API layer in front of the store: one action per request        *)
(* ------------------------------------------------------------------ *)

\* Since the request before, the store's clock has reached the next second
\* or not (it matters to the statements that write CURRENT_TIMESTAMP).
Elapsed(req) ==
  IF req.op \in {"POST /groups", "POST /members"} THEN {0, 1} ELSE {0}

Handle(req) ==
  /\ WithinBounds(db, req)
  /\ \E dt \in Elapsed(req) :
        /\ clock + dt <= MaxClock
        /\ clock' = clock + dt
        /\ db' = Route(db, req, clock').s
  /\ UNCHANGED <<clientVars, outerVars>>

ApiGetGroups ==
  \E req \in GetGroupsRequests : req.op = "GET /groups" /\ Handle(req)

ApiPostGroups ==
  \E req \in PostGroupsRequests : req.op = "POST /groups" /\ Handle(req)

ApiPutGroups ==
  \E req \in PutGroupsRequests : req.op = "PUT /groups" /\ Handle(req)

ApiDeleteGroups ==
  \E req \in DeleteGroupsRequests : req.op = "DELETE /groups" /\ Handle(req)

ApiPostMembers ==
  \E req \in PostMembersRequests : req.op = "POST /members" /\ Handle(req)

ApiPutMembers ==
  \E req \in PutMembersRequests : req.op = "PUT /members" /\ Handle(req)

ApiDeleteMembers ==
  \E req \in DeleteMembersRequests : req.op = "DELETE /members" /\ Handle(req)

\* A new server process: the module state of db.ts is initialised again (no
\* client, hence a new connection), the database is what the last one left.
Restart ==
  /\ db' = [db EXCEPT !.foreign_keys = FALSE, !.last_insert_rowid = 0]
  /\ UNCHANGED <<clock, clientVars, outerVars>>

Init ==
  /\ db = EmptyDb
  /\ clock = 0
  /\ ClientInit
  /\ OuterInit

Next ==
  \/ ApiGetGroups
  \/ ApiPostGroups
  \/ ApiPutGroups
  \/ ApiDeleteGroups
  \/ ApiPostMembers
  \/ ApiPutMembers
  \/ ApiDeleteMembers
  \/ Restart

Spec == Init /\ [][Next]_vars

(* ------------------------------------------------------------------ *)
(*  Sync Engine: mutate(), revalidation and the server they talk to    *)
(* ------------------------------------------------------------------ *)

\* Mutations a run may start.
MaxMutations == 2
\* Largest Date.now() of the browser in a run.
MaxNowMs == 2
\* Requests other clients may send in a run.
MaxWrites == 1

\* a sentinel id without the sign
TempIdUnsigned(now) == now

\* const tempId = -Date.now()
TempId(now) == 0 - now

\* MUTATION[key][1] = 0: the mutation started last has not ended
Mutating == \E m \in inflight : ~m.superseded

\* The hook's `data` is what the cache shows
HookData == OrEmpty(cache.data)

StartMutationUnpublished(call) ==
  /\ started < MaxMutations
  /\ \E dt \in {0, 1} : nowMs + dt <= MaxNowMs /\ nowMs' = nowMs + dt
  /\ LET displayedData == cache.data
         committedData == IF cache._c.defined THEN cache._c ELSE displayedData
         m == [kind |-> call.kind, id |-> call.id, groupId |-> call.groupId,
               name |-> call.name, updates |-> call.updates,
               n |-> started + 1, tempId |-> TempId(nowMs'), now |-> nowMs',
               displayedData |-> displayedData, committedData |-> committedData,
               alone |-> (inflight = {}), superseded |-> FALSE,
               phase |-> "sent", ok |-> FALSE, body |-> NoBody]
     IN /\ cache' = [data |-> cache.data, _c |-> committedData]
        /\ inflight' = {[o EXCEPT !.superseded = TRUE] : o \in inflight} \cup {m}
  /\ started' = started + 1
  /\ fetch' = IF fetch.phase = "none" THEN fetch ELSE [fetch EXCEPT !.stale = TRUE]
  /\ UNCHANGED <<serverVars, pendingClears, writes, outerVars>>

\* the optimistic snapshot computed from the committed data, not the shown one
StartMutationFromCommitted(call) ==
  /\ started < MaxMutations
  /\ \E dt \in {0, 1} : nowMs + dt <= MaxNowMs /\ nowMs' = nowMs + dt
  /\ LET displayedData == cache.data
         committedData == IF cache._c.defined THEN cache._c ELSE displayedData
         m == [kind |-> call.kind, id |-> call.id, groupId |-> call.groupId,
               name |-> call.name, updates |-> call.updates,
               n |-> started + 1, tempId |-> TempId(nowMs'), now |-> nowMs',
               displayedData |-> displayedData, committedData |-> committedData,
               alone |-> (inflight = {}), superseded |-> FALSE,
               phase |-> "sent", ok |-> FALSE, body |-> NoBody]
     IN /\ cache' = [data |-> Def(OptimisticData(m, OrEmpty(committedData))),
                     _c |-> committedData]
        /\ inflight' = {[o EXCEPT !.superseded = TRUE] : o \in inflight} \cup {m}
  /\ started' = started + 1
  /\ fetch' = IF fetch.phase = "none" THEN fetch ELSE [fetch EXCEPT !.stale = TRUE]
  /\ UNCHANGED <<serverVars, pendingClears, writes, outerVars>>

\* mutate(mutator, {optimisticData, rollbackOnError, revalidate}) up to its
\* await: the snapshot is published, then the mutator sends its request.
\* Since the call before, the browser's clock has advanced or not.
StartMutation(call) ==
  /\ started < MaxMutations
  /\ \E dt \in {0, 1} : nowMs + dt <= MaxNowMs /\ nowMs' = nowMs + dt
  /\ LET displayedData == cache.data
         committedData == IF cache._c.defined THEN cache._c ELSE displayedData
         m == [kind |-> call.kind, id |-> call.id, groupId |-> call.groupId,
               name |-> call.name, updates |-> call.updates,
               n |-> started + 1, tempId |-> TempId(nowMs'), now |-> nowMs',
               displayedData |-> displayedData, committedData |-> committedData,
               alone |-> (inflight = {}), superseded |-> FALSE,
               phase |-> "sent", ok |-> FALSE, body |-> NoBody]
     IN /\ cache' = [data |-> Def(OptimisticData(m, HookData)), _c |-> committedData]
        /\ inflight' = {[o EXCEPT !.superseded = TRUE] : o \in inflight} \cup {m}
  /\ started' = started + 1
  /\ fetch' = IF fetch.phase = "none" THEN fetch ELSE [fetch EXCEPT !.stale = TRUE]
  /\ UNCHANGED <<serverVars, pendingClears, writes, outerVars>>

addGroup == \E call \in Calls : call.kind = "addGroup" /\ StartMutation(call)

renameGroup == \E call \in Calls : call.kind = "renameGroup" /\ StartMutation(call)

removeGroup == \E call \in Calls : call.kind = "removeGroup" /\ StartMutation(call)

addMember == \E call \in Calls : call.kind = "addMember" /\ StartMutation(call)

editMember == \E call \in Calls : call.kind = "editMember" /\ StartMutation(call)

removeMember == \E call \in Calls : call.kind = "removeMember" /\ StartMutation(call)

\* The API layer receives the request of m, runs the handler and answers.
ServeMutation(m) ==
  /\ m.phase = "sent"
  /\ WithinBounds(db, RequestOf(m))
  /\ \E r \in {Route(db, RequestOf(m), clock)} :
        /\ db' = r.s
        /\ inflight' = (inflight \ {m}) \cup
             {[m EXCEPT !.phase = "answered", !.ok = Success(r.resp.status),
                        !.body = BodyOf(m, r.resp)]}
  /\ UNCHANGED <<clock, cache, started, fetch, pendingClears, nowMs, writes, outerVars>>

\* The request of m never reaches the API layer: fetch rejects.
DropMutation(m) ==
  /\ m.phase = "sent"
  /\ inflight' = (inflight \ {m}) \cup {[m EXCEPT !.phase = "answered"]}
  /\ UNCHANGED <<serverVars, cache, started, fetch, pendingClears, nowMs, writes, outerVars>>

\* What mutate() writes to the cache after its await, when no later
\* mutation has started: the committed snapshot on an error, the mutator's
\* result otherwise
SettledCacheNoRollback(m) ==
  IF m.ok
  THEN [data |-> Def(Spliced(m, OrEmpty(m.committedData), m.body)), _c |-> Undef]
  ELSE [data |-> cache.data, _c |-> Undef]

SettledCache(m) ==
  IF m.ok
  THEN [data |-> Def(Spliced(m, OrEmpty(m.committedData), m.body)), _c |-> Undef]
  ELSE [data |-> m.committedData, _c |-> Undef]

\* a failed call is sent again instead of being given up
SettleMutationRetry(m) ==
  /\ m.phase = "answered"
  /\ IF ~m.ok
     THEN /\ inflight' = (inflight \ {m}) \cup {[m EXCEPT !.phase = "sent"]}
          /\ UNCHANGED <<cache, fetch, pendingClears>>
     ELSE /\ inflight' = inflight \ {m}
          /\ IF m.superseded
             THEN UNCHANGED <<cache, fetch, pendingClears>>
             ELSE /\ cache' = SettledCache(m)
                  /\ fetch' = NewFetch(TRUE)
                  /\ pendingClears' = pendingClears + (IF fetch.clear THEN 1 ELSE 0)
  /\ UNCHANGED <<serverVars, started, nowMs, writes, outerVars>>

\* mutate() after its await.  A mutation that a later one has superseded
\* only returns or throws; the last one writes the cache and revalidates.
SettleMutation(m) ==
  /\ m.phase = "answered"
  /\ inflight' = inflight \ {m}
  /\ IF m.superseded
     THEN UNCHANGED <<cache, fetch, pendingClears>>
     ELSE /\ cache' = SettledCache(m)
          /\ fetch' = NewFetch(TRUE)
          /\ pendingClears' = pendingClears + (IF fetch.clear THEN 1 ELSE 0)
  /\ UNCHANGED <<serverVars, started, nowMs, writes, outerVars>>

PollOff ==
  /\ fetch.phase = "none"
  /\ UNCHANGED vars

\* revalidateOnFocus / refreshInterval: a request in progress is shared
Poll ==
  /\ fetch.phase = "none"
  /\ fetch' = NewFetch(FALSE)
  /\ UNCHANGED <<serverVars, cache, inflight, started, pendingClears, nowMs, writes, outerVars>>

\* refresh() that empties the data shown while the request is on its way
refreshClearing ==
  /\ cache' = [cache EXCEPT !.data = Undef]
  /\ fetch' = [NewFetch(FALSE) EXCEPT !.forced = TRUE, !.alone = (inflight = {})]
  /\ pendingClears' = pendingClears + (IF fetch.clear THEN 1 ELSE 0)
  /\ UNCHANGED <<serverVars, inflight, started, nowMs, writes, outerVars>>

\* refresh(): globalMutate(API_KEY) drops the request marker and fetches anew
refresh ==
  /\ fetch' = [NewFetch(FALSE) EXCEPT !.forced = TRUE, !.alone = (inflight = {})]
  /\ pendingClears' = pendingClears + (IF fetch.clear THEN 1 ELSE 0)
  /\ UNCHANGED <<serverVars, cache, inflight, started, nowMs, writes, outerVars>>

\* GET /api/groups is handled
ServeFetch ==
  /\ fetch.phase = "sent"
  /\ \E r \in {Route(db, [op |-> "GET /groups"], clock)} :
        /\ db' = r.s
        /\ fetch' = [fetch EXCEPT !.phase = "answered", !.ok = Success(r.resp.status),
                                  !.body = r.resp.body]
  /\ UNCHANGED <<clock, cache, inflight, started, pendingClears, nowMs, writes, outerVars>>

\* The fetcher throws (no answer): the data stays, a waiting mutate() goes on
FailFetch ==
  /\ fetch.phase = "sent"
  /\ fetch' = NoFetch
  /\ cache' = IF fetch.clear THEN [cache EXCEPT !._c = Undef] ELSE cache
  /\ UNCHANGED <<serverVars, inflight, started, pendingClears, nowMs, writes, outerVars>>

\* revalidate() after its await: the answer is dropped when a mutation
\* started or ended since the request, or is still running
ApplyFetch ==
  /\ fetch.phase = "answered"
  /\ fetch' = NoFetch
  /\ LET data == IF fetch.stale \/ Mutating \/ ~fetch.ok
                 THEN cache.data ELSE Def(fetch.body)
     IN cache' = [data |-> data, _c |-> IF fetch.clear THEN Undef ELSE cache._c]
  /\ UNCHANGED <<serverVars, inflight, started, pendingClears, nowMs, writes, outerVars>>

\* A replaced revalidation a mutate() waited for returns: _c is cleared
ClearCommitted ==
  /\ pendingClears > 0
  /\ pendingClears' = pendingClears - 1
  /\ cache' = [cache EXCEPT !._c = Undef]
  /\ UNCHANGED <<serverVars, inflight, started, fetch, nowMs, writes, outerVars>>

\* Another client renames group 1 through the API
OtherWriterRequests ==
  {[op |-> "PUT /groups", parsable |-> TRUE, id |-> 1, name |-> <<" ", "A", " ">>]}

OtherWriter ==
  /\ writes < MaxWrites
  /\ writes' = writes + 1
  /\ \E req \in OtherWriterRequests : db' = Route(db, req, clock).s
  /\ UNCHANGED <<clock, cache, inflight, started, fetch, pendingClears, nowMs, outerVars>>

Serve == \E m \in inflight : ServeMutation(m)

Drop == \E m \in inflight : DropMutation(m)

Settle == \E m \in inflight : SettleMutation(m)

\* Stores the API specification reaches: one group, with or without a member
SeedGroup == [id |-> 1, name |-> DefaultGroupName, created_at |-> SqlTime(0)]

SeedMember ==
  [id |-> 1, group_id |-> 1, name |-> DefaultMemberName, checked_in |-> 0,
   created_at |-> SqlTime(0)]

SeedDbs ==
  {[EmptyDb EXCEPT !.schema = TRUE, !.groups = {SeedGroup}, !.seqGroups = 1,
                   !.last_insert_rowid = 1],
   [EmptyDb EXCEPT !.schema = TRUE, !.groups = {SeedGroup}, !.seqGroups = 1,
                   !.members = {SeedMember}, !.seqMembers = 1,
                   !.last_insert_rowid = 1]}

SyncInit ==
  /\ db \in SeedDbs
  /\ clock = 0
  /\ ClientInit
  /\ OuterInit

SyncNext ==
  \/ addGroup
  \/ renameGroup
  \/ removeGroup
  \/ addMember
  \/ editMember
  \/ removeMember
  \/ Serve
  \/ Drop
  \/ Settle
  \/ Poll
  \/ ServeFetch
  \/ FailFetch
  \/ ApplyFetch
  \/ ClearCommitted

SyncSpec == SyncInit /\ [][SyncNext]_vars

\* Requests that create members and groups, served by one process at once
InterleavedInit ==
  /\ db \in SeedDbs
  /\ clock = 0
  /\ ClientInit
  /\ OuterInit

InterleavedNext ==
  \/ CreateMemberInsert
  \/ CreateMemberSelect
  \/ CreateGroupCall

InterleavedSpec == InterleavedInit /\ [][InterleavedNext]_vars

\* The engine with the view's refresh button
RefreshNext ==
  \/ SyncNext
  \/ refresh

RefreshSpec == SyncInit /\ [][RefreshNext]_vars

\* The engine with the polling safety net and another client, for one hook
\* call of each kind of write (create, update, delete).  Every request is
\* answered in the end and every answer handled; a mutation's request may
\* fail, GET /api/groups gets through.
LiveNext ==
  \/ addMember
  \/ renameGroup
  \/ removeGroup
  \/ Serve
  \/ Drop
  \/ Settle
  \/ Poll
  \/ ServeFetch
  \/ ApplyFetch
  \/ ClearCommitted
  \/ OtherWriter

LiveSpec ==
  /\ SyncInit
  /\ [][LiveNext]_vars
  /\ WF_vars(Drop \/ Serve)
  /\ WF_vars(Settle)
  /\ WF_vars(Poll)
  /\ WF_vars(ServeFetch)
  /\ WF_vars(ApplyFetch)

(* ------------------------------------------------------------------ *)
(*  Properties of the Store and the API layer                          *)
(* ------------------------------------------------------------------ *)

GroupIds(s) == {g.id : g \in s.groups}

AllSpaces(str) == \A k \in 1..Len(str) : str[k] = " "

\* t is str without its leading and trailing spaces
IsTrimOf(t, str) ==
  \E i \in 1..(Len(str) + 1), j \in 0..Len(str) :
    /\ t = SubSeq(str, i, j)
    /\ \A k \in 1..(i - 1) : str[k] = " "
    /\ \A k \in (j + 1)..Len(str) : str[k] = " "
    /\ t # <<>> => t[1] # " " /\ t[Len(t)] # " "

StoredAs(stored, name, placeholder) ==
  IF name = Undefined \/ AllSpaces(name)
  THEN stored = placeholder
  ELSE stored # <<>> /\ IsTrimOf(stored, name)

\* C7: every API call that answers with a non-2xx status leaves the persisted
\* groups and members exactly as they were before the call.
C7_FailedCallChangesNothing ==
  \A req \in Requests :
    LET r == Route(db, req, clock)
    IN ~Success(r.resp.status) =>
         r.s.groups = db.groups /\ r.s.members = db.members

\* C8: POST /groups answers 201 with the created group (fresh id, stored name),
\* and the GET /groups that follows lists that group once, without members.
C8_PostGroupsAnswersCreated ==
  \A req \in PostGroupsRequests :
    LET r == Route(db, req, clock)
        listing == Route(r.s, [op |-> "GET /groups"], clock).resp.body
    IN /\ r.resp.status = 201
       /\ r.resp.body.id \notin GroupIds(db)
       /\ \E g \in r.s.groups : g.id = r.resp.body.id /\ g.name = r.resp.body.name
       /\ Cardinality({i \in 1..Len(listing) :
                         listing[i].id = r.resp.body.id /\ listing[i].members = <<>>}) = 1

\* C9: createGroup and createMember store the name without its surrounding
\* spaces when something is left of it, and the placeholder when the name is
\* omitted, empty or spaces only.
C9_CreatedNameIsTrimmedOrPlaceholder ==
  \A name \in NameArgs :
    /\ LET r == createGroup(db, name, clock)
       IN \E g \in r.s.groups \ db.groups :
            /\ g.id \notin GroupIds(db)
            /\ StoredAs(g.name, name, DefaultGroupName)
    /\ \A groupId \in 1..MaxGroups :
         LET r == createMember(db, groupId, name, clock)
         IN IF r.ok
            THEN /\ StoredAs(r.val.name, name, DefaultMemberName)
                 /\ \E m \in r.s.members \ db.members :
                      m.id = r.val.id /\ m.name = r.val.name
            ELSE r.s.members = db.members

\* a padded name was stored trimmed and an omitted one as the placeholder
C9_Witness ==
  /\ \E g \in db.groups : g.name = <<"A">>
  /\ \E g \in db.groups : g.name = DefaultGroupName
  /\ \E m \in db.members : m.name \in {<<"A">>, DefaultMemberName}

\* C10: after DELETE /groups?id=N has succeeded on a group with members, no read (the GET /groups
\* listing, the member a PUT /members returns) shows group N or a member
\* whose group_id is N.
C10_DeleteGroupCascades ==
  \A del \in DeleteGroupsRequests :
    LET r == Route(db, del, clock)
        listing == Route(r.s, [op |-> "GET /groups"], clock).resp.body
    IN (/\ del.hasId
        /\ del.id \in GroupIds(db)
        /\ \E m \in db.members : m.group_id = del.id
        /\ Success(r.resp.status)) =>
         /\ \A i \in 1..Len(listing) :
              /\ listing[i].id # del.id
              /\ \A k \in 1..Len(listing[i].members) :
                   listing[i].members[k].group_id # del.id
         /\ \A put \in PutMembersRequests :
              LET w == Route(r.s, put, clock)
              IN Success(w.resp.status) => w.resp.body.group_id # del.id

(* ------------------------------------------------------------------ *)
(*  Properties of the Sync Engine                                      *)
(* ------------------------------------------------------------------ *)

\* GET /api/groups of the store as it is
Listing(s) == getAllGroupsWithMembers(s).val

MembersWithId(data, groupId, id) ==
  {<<i, k>> \in (1..Len(data)) \X (1..MaxMutations + MaxMembers + 1) :
     /\ k <= Len(data[i].members)
     /\ data[i].id = groupId
     /\ data[i].members[k].id = id}

HasSentinel(data) ==
  \E i \in 1..Len(data) :
    \/ data[i].id < 0
    \/ \E k \in 1..Len(data[i].members) : data[i].members[k].id < 0

\* C1: a mutation that ran with no other mutation in flight and whose
\* network call failed leaves, at the step that rejects the call, the snapshot
\* that was cached right before its optimistic phase.
C1_FailedMutationRestoresSnapshot ==
  [][\A m \in inflight :
       (SettleMutation(m) /\ ~m.ok /\ m.alone /\ ~m.superseded)
         => cache'.data = m.displayedData]_vars

\* a lone mutation has failed and its optimistic snapshot is still shown
C1_Witness ==
  \E m \in inflight :
    /\ m.phase = "answered" /\ ~m.ok /\ m.alone /\ ~m.superseded
    /\ cache.data # m.displayedData
    /\ m.displayedData.defined

\* The change m publishes is (still) to be seen in data
ChangeVisible(m, data) ==
  CASE m.kind = "addGroup" -> \E i \in 1..Len(data) : data[i].id = m.tempId
    [] m.kind = "addMember" ->
         \E i \in 1..Len(data) :
           \E k \in 1..Len(data[i].members) : data[i].members[k].id = m.tempId
    [] m.kind = "removeGroup" ->
         /\ \E i \in 1..Len(OrEmpty(m.committedData)) : OrEmpty(m.committedData)[i].id = m.id
         /\ ~\E i \in 1..Len(data) : data[i].id = m.id
    [] m.kind = "removeMember" ->
         /\ MembersWithId(OrEmpty(m.committedData), m.groupId, m.id) # {}
         /\ MembersWithId(data, m.groupId, m.id) = {}
    [] m.kind = "renameGroup" ->
         /\ \E i \in 1..Len(OrEmpty(m.committedData)) :
              /\ OrEmpty(m.committedData)[i].id = m.id
              /\ OrEmpty(m.committedData)[i].name # m.name
         /\ \E i \in 1..Len(data) : data[i].id = m.id /\ data[i].name = m.name
    [] m.kind = "editMember" ->
         \E i \in 1..Len(data) :
           \E k \in 1..Len(data[i].members) :
             LET x == data[i].members[k]
             IN /\ x.id = m.id
                /\ x = Merge(x, m.updates)
                /\ \E j \in 1..Len(OrEmpty(m.committedData)) :
                     \E l \in 1..Len(OrEmpty(m.committedData)[j].members) :
                       LET y == OrEmpty(m.committedData)[j].members[l]
                       IN y.id = m.id /\ y # Merge(y, m.updates)

\* o asks for the change m asks for
SameIntent(o, m) ==
  /\ o.kind = m.kind /\ o.id = m.id /\ o.groupId = m.groupId
  /\ o.name = m.name /\ o.updates = m.updates
  /\ o.kind \in {"addGroup", "addMember"} => o.tempId = m.tempId

\* C2: under any interleaving, at the step that rejects a failed mutation the
\* cache no longer shows that mutation's optimistic change.
C2_FailedMutationNeverStaysOptimistic ==
  [][\A m \in inflight :
       (/\ SettleMutation(m)
        /\ ~m.ok
        /\ \A o \in inflight \ {m} : ~SameIntent(o, m))
         => ~ChangeVisible(m, OrEmpty(cache'.data))]_vars

\* C3: once addMember's response has been spliced in, the cache holds no
\* sentinel id and exactly one member with the server's id in that group.
C3_PlaceholderReplacedByServerEntity ==
  [][\A m \in inflight :
       (/\ SettleMutation(m)
        /\ m.ok /\ m.alone /\ ~m.superseded
        /\ m.kind = "addMember"
        /\ \E i \in 1..Len(OrEmpty(m.displayedData)) :
             OrEmpty(m.displayedData)[i].id = m.groupId)
         => /\ ~HasSentinel(OrEmpty(cache'.data))
            /\ Cardinality(MembersWithId(OrEmpty(cache'.data), m.groupId, m.body.id)) = 1]_vars

\* C4: while the request of the mutation started last has not reached the
\* API layer, the cache shows that mutation's optimistic snapshot.
C4_OptimisticBeforeRequest ==
  \A m \in inflight :
    (m.phase = "sent" /\ ~m.superseded)
      => cache.data = Def(OptimisticData(m, OrEmpty(m.displayedData)))

\* a request is on its way and the cache already shows its change
C4_Witness ==
  \E m \in inflight :
    /\ m.phase = "sent" /\ ~m.superseded
    /\ m.displayedData.defined
    /\ cache.data # m.displayedData
    /\ db \in SeedDbs

\* C5: a mutation whose commit call succeeded starts a full reload at the
\* step that settles it.
C5_SuccessTriggersReload ==
  [][\A m \in inflight :
       (SettleMutation(m) /\ m.ok) => fetch' = NewFetch(TRUE)]_vars

\* C6: once no more mutations are issued, polling makes the cache equal to
\* the store's listing, for good.
C6_PollingConverges == <>[](cache.data = Def(Listing(db)))

\* the cache has caught up with a store that another client and a mutation changed
C6_Witness ==
  /\ cache.data = Def(Listing(db))
  /\ writes = MaxWrites
  /\ started = MaxMutations
  /\ inflight = {}
  /\ \E g \in db.groups : g.name = <<"A">>

(* ------------------------------------------------------------------ *)
(*  Properties of the Store and the API layer, continued               *)
(* ------------------------------------------------------------------ *)

\* C11: every stored member's group_id is the id of a stored group, and a
\* POST /members naming a group that is not stored fails and stores nothing.
C11_MembersReferToGroups ==
  /\ \A m \in db.members : m.group_id \in GroupIds(db)
  /\ \A req \in PostMembersRequests :
       (req.parsable /\ req.group_id # 0 /\ req.group_id \notin GroupIds(db))
         => LET r == Route(db, req, clock)
            IN ~Success(r.resp.status) /\ r.s.members = db.members

\* C12: no stored group or member has the empty name, and a rename or a
\* member update whose trimmed name is empty leaves the stored name as it was.
C12_NoEmptyNames ==
  /\ \A g \in db.groups : g.name # <<>>
  /\ \A m \in db.members : m.name # <<>>
  /\ \A req \in PutGroupsRequests \cup PutMembersRequests :
       LET r == Route(db, req, clock)
           name == IF req.op = "PUT /groups" THEN req.name ELSE req.updates.name
       IN (name # Undefined /\ Trim(name) = <<>>)
            => /\ {[id |-> g.id, name |-> g.name] : g \in r.s.groups}
                    = {[id |-> g.id, name |-> g.name] : g \in db.groups}
               /\ {[id |-> m.id, name |-> m.name] : m \in r.s.members}
                    = {[id |-> m.id, name |-> m.name] : m \in db.members}
\* C13: PUT /members fails with "No fields to update" exactly when neither
\* name nor checked_in is given, and then changes nothing; an update that
\* carries only checked_in: false succeeds and stores the flag as false.
C13_NoFieldsExactlyWhenBothAbsent ==
  \A req \in PutMembersRequests :
    (req.parsable /\ req.id # 0)
      => LET u == req.updates
             r == Route(db, req, clock)
             none == ~u.hasName /\ ~u.hasChecked
         IN /\ (r.resp.error = "No fields to update") <=> none
            /\ none => (r.resp.status = 500 /\ r.s = db)
            /\ (/\ u.hasChecked /\ ~u.checked_in /\ ~u.hasName
                /\ \E m \in db.members : m.id = req.id)
                 => /\ r.resp.status = 200
                    /\ r.resp.body.checked_in = FALSE
                    /\ \A m \in r.s.members : m.id = req.id => m.checked_in = 0

\* a checked-in member is stored: checked_in: false has something to change
C13_Witness == \E m \in db.members : m.checked_in = 1 /\ m.name = <<"A">>
MissingField(req) ==
  CASE req.op = "PUT /groups" -> req.parsable /\ (req.id = 0 \/ Falsy(req.name))
    [] req.op = "POST /members" -> req.parsable /\ req.group_id = 0
    [] req.op = "PUT /members" -> req.parsable /\ req.id = 0
    [] req.op \in {"DELETE /groups", "DELETE /members"} -> ~req.hasId
    [] OTHER -> FALSE

\* The Store function a well-formed request is delegated to, and its outcome
StoreCall(s, req, now) ==
  CASE req.op = "GET /groups" -> getAllGroupsWithMembers(s)
    [] req.op = "POST /groups" -> createGroup(s, req.name, now)
    [] req.op = "PUT /groups" -> updateGroup(s, req.id, req.name)
    [] req.op = "DELETE /groups" -> deleteGroup(s, req.id)
    [] req.op = "POST /members" -> createMember(s, req.group_id, req.name, now)
    [] req.op = "PUT /members" ->
         updateMember(s, req.id, req.updates.hasName, req.updates.name,
                      req.updates.hasChecked, req.updates.checked_in)
    [] req.op = "DELETE /members" -> deleteMember(s, req.id)

Parsable(req) ==
  req.op \in {"POST /groups", "PUT /groups", "POST /members", "PUT /members"}
    => req.parsable

\* C15: every request gets a response; a request that lacks a required
\* identifier or field gets 400 with an error and no statement is run (the
\* answer is 400 even without tables, and the store is as before); a Store
\* exception becomes 500 with its message; no response with an error is 2xx.
C15_HandlersAlwaysAnswer ==
  \A req \in Requests :
    \E r \in {Route(db, req, clock)} :
       /\ r.resp.status \in {200, 201, 400, 500}
       /\ r.resp.error # "" <=> ~Success(r.resp.status)
       /\ MissingField(req)
            => /\ r.resp.status = 400
               /\ r.s = db
               /\ Route([db EXCEPT !.schema = FALSE], req, clock).resp.status = 400
       /\ (Parsable(req) /\ ~MissingField(req) /\ Success(r.resp.status))
            => StoreCall(db, req, clock).ok
       /\ (Parsable(req) /\ ~MissingField(req) /\ ~Success(r.resp.status))
            => \E c \in {StoreCall(db, req, clock)} :
                 ~c.ok /\ r.resp.status = 500 /\ r.resp.error = c.err

\* rows are stored, and some request is refused and some makes the Store throw
C15_Witness ==
  /\ db.members # {}
  /\ \E req \in MutatingRequests : Route(db, req, clock).resp.status = 400
  /\ \E req \in PutMembersRequests :
       /\ Route(db, req, clock).resp.status = 500
       /\ Route(db, req, clock).resp.error = "Member not found"
\* C16: ids are handed out in increasing order and never again: a row that a
\* step creates has an id greater than the table's sequence, which never
\* decreases and is at least every stored id -- so greater than every id
\* the table has ever assigned, deleted rows included.
C16_IdsNeverReused ==
  [][/\ db'.seqGroups >= db.seqGroups
     /\ db'.seqMembers >= db.seqMembers
     /\ \A g \in db'.groups : g.id <= db'.seqGroups
     /\ \A m \in db'.members : m.id <= db'.seqMembers
     /\ \A g \in db'.groups : g.id \notin GroupIds(db) => g.id > db.seqGroups
     /\ \A m \in db'.members :
          m.id \notin {o.id : o \in db.members} => m.id > db.seqMembers]_vars

\* group 1 and member 1 are deleted, and the rows created after them got id 2
C16_Witness ==
  /\ GroupIds(db) = {2}
  /\ {m.id : m \in db.members} = {2}
\* C17: PUT /groups and PUT /members change nothing but the name and the
\* check-in flag of the row addressed: the same ids are stored, every row
\* keeps its id, group_id and created_at, every other row is as it was, an
\* update without name keeps the name and one without checked_in keeps the flag.
C17_UpdatesTouchNameAndFlagOnly ==
  \A req \in PutGroupsRequests \cup PutMembersRequests :
    \E r \in {Route(db, req, clock)} :
      /\ GroupIds(r.s) = GroupIds(db)
      /\ {m.id : m \in r.s.members} = {m.id : m \in db.members}
      /\ Cardinality(r.s.groups) = Cardinality(db.groups)
      /\ Cardinality(r.s.members) = Cardinality(db.members)
      /\ r.s.seqGroups = db.seqGroups /\ r.s.seqMembers = db.seqMembers
      /\ \A g \in db.groups :
           \E g2 \in r.s.groups :
             /\ g2.id = g.id /\ g2.created_at = g.created_at
             /\ (req.op = "PUT /groups" /\ req.id = g.id) \/ g2 = g
      /\ \A m \in db.members :
           \E m2 \in r.s.members :
             /\ m2.id = m.id /\ m2.group_id = m.group_id
             /\ m2.created_at = m.created_at
             /\ (req.op = "PUT /members" /\ req.id = m.id) \/ m2 = m
             /\ (req.op = "PUT /members" /\ ~req.updates.hasName) => m2.name = m.name
             /\ (req.op = "PUT /members" /\ ~req.updates.hasChecked)
                  => m2.checked_in = m.checked_in

\* two groups and two members, one of them renamed and checked in
C17_Witness ==
  /\ Cardinality(db.groups) = 2
  /\ Cardinality(db.members) = 2
  /\ \E m \in db.members : m.checked_in = 1 /\ m.name # DefaultMemberName
  /\ \E g \in db.groups : g.name # DefaultGroupName
\* Where member id is listed: <<index of the group, index in its members>>
ListedAt(listing, id) ==
  {<<i, k>> \in (1..Len(listing)) \X (1..MaxMembers) :
     k <= Len(listing[i].members) /\ listing[i].members[k].id = id}

\* a was created before b: ids are handed out in creation order, and the
\* creation times follow it
CreatedBefore(a, b) == a.id < b.id /\ a.created_at[2] <= b.created_at[2]

\* C18: GET /groups lists every stored group exactly once, in creation order,
\* and every stored member exactly once, in the members of the group its
\* group_id names, each members list in creation order.
C18_ListingIsComplete ==
  LET listing == Listing(db)
  IN /\ Len(listing) = Cardinality(db.groups)
     /\ \A g \in db.groups :
          Cardinality({i \in 1..Len(listing) : listing[i].id = g.id}) = 1
     /\ \A i, j \in 1..Len(listing) :
          i < j => CreatedBefore(listing[i], listing[j])
     /\ \A m \in db.members :
          /\ Cardinality(ListedAt(listing, m.id)) = 1
          /\ \A at \in ListedAt(listing, m.id) : listing[at[1]].id = m.group_id
     /\ \A i \in 1..Len(listing) :
          \A k, l \in 1..Len(listing[i].members) :
            k < l => CreatedBefore(listing[i].members[k], listing[i].members[l])
\* C19: ensureSchema run twice in a row leaves what one run leaves, and a run
\* on a store that holds rows leaves every row and both id sequences as they
\* were; two GET /groups in a row both answer 200 with the same list.
C19_EnsureSchemaIdempotent ==
  LET once == ensureSchema(db)
      twice == ensureSchema(once)
      get1 == GroupsGET(db)
      get2 == GroupsGET(get1.s)
  IN /\ twice = once
     /\ once.schema
     /\ once.groups = db.groups /\ once.members = db.members
     /\ once.seqGroups = db.seqGroups /\ once.seqMembers = db.seqMembers
     /\ get1.resp.status = 200 /\ get2.resp = get1.resp /\ get2.s = get1.s

\* rows are stored and this process has not run ensureSchema yet
C19_Witness ==
  /\ db.schema /\ ~db.foreign_keys
  /\ db.groups # {} /\ db.members # {}
(* ------------------------------------------------------------------ *)
(*  Properties of the Sync Engine, continued                           *)
(* ------------------------------------------------------------------ *)

\* C20: a mutation's request is on its way once: a request in phase sent is
\* that of a mutation started in this step or one that was in phase sent
\* already, so an answered (or failed) mutation is never sent again; a step
\* that changes the stored rows answers the request of exactly one mutation;
\* the answer a mutation got, failure included, stays the one it settles with.
C20_CommitCallIssuedOnce ==
  [][/\ \A o \in inflight' :
          o.phase = "sent"
            => \/ \E m \in inflight : m.n = o.n /\ m.phase = "sent"
               \/ /\ started' = started + 1 /\ o.n = started'
                  /\ \A m \in inflight : m.n # o.n
     /\ (db'.groups # db.groups \/ db'.members # db.members)
          => Cardinality({m \in inflight :
                            /\ m.phase = "sent"
                            /\ \E o \in inflight' : o.n = m.n /\ o.phase = "answered"}) = 1
     /\ \A m \in inflight :
          m.phase = "answered"
            => \A o \in inflight' :
                 o.n = m.n => o.phase = "answered" /\ o.ok = m.ok /\ o.body = m.body]_vars

\* removeGroup's request has failed and its call is about to reject
C20_Witness ==
  \E m \in inflight :
    /\ m.kind = "removeGroup" /\ m.phase = "answered" /\ ~m.ok
    /\ 1 \in GroupIds(db)

(* ------------------------------------------------------------------ *)
(*  Properties of the Sync Engine: snapshots                           *)
(* ------------------------------------------------------------------ *)

\* after is before without the group id and without any member of it, every
\* other group being where it was, with the members it had
RemovedFrom(id, before, after) ==
  LET kept == {i \in 1..Len(before) : before[i].id # id}
  IN /\ \A i \in 1..Len(after) :
          /\ after[i].id # id
          /\ \A k \in 1..Len(after[i].members) : after[i].members[k].group_id # id
     /\ Len(after) = Cardinality(kept)
     /\ \A i \in kept : after[Cardinality({j \in kept : j <= i})] = before[i]

\* C21: the snapshot removeGroup(id) publishes, and the one it writes once
\* DELETE has succeeded, hold neither group id nor a member of it; every other
\* group is unchanged.
C21_RemoveGroupCascadesInCache ==
  [][/\ \A call \in Calls :
          (call.kind = "removeGroup" /\ StartMutation(call))
            => RemovedFrom(call.id, HookData, OrEmpty(cache'.data))
     /\ \A m \in inflight :
          (SettleMutation(m) /\ m.ok /\ ~m.superseded /\ m.kind = "removeGroup")
            => RemovedFrom(m.id, OrEmpty(m.committedData), OrEmpty(cache'.data))]_vars

\* removeGroup was called on a cached group that had a member, and the DELETE
\* has succeeded
C21_Witness ==
  \E m \in inflight :
    /\ m.kind = "removeGroup" /\ m.phase = "answered" /\ m.ok /\ ~m.superseded
    /\ \E i \in 1..Len(OrEmpty(m.committedData)) :
         /\ OrEmpty(m.committedData)[i].id = m.id
         /\ OrEmpty(m.committedData)[i].members # <<>>
    /\ cache.data = Def(<<>>)

Undoes(m, o) ==
  \/ /\ m.kind = "removeGroup"
     /\ o.kind \in {"renameGroup", "addMember", "editMember"}
     /\ m.id = (IF o.kind = "renameGroup" THEN o.id ELSE o.groupId)
  \/ /\ m.kind = "removeMember" /\ o.kind = "editMember"
     /\ m.id = o.id /\ m.groupId = o.groupId

\* C23: a mutation that starts while another is in flight starts from the
\* snapshot the cache shows, which is the optimistic snapshot of the mutation
\* started right before it; the snapshot it publishes still holds the earlier
\* mutation's change, unless it removes the entity that carries it.
C23_SecondStartsFromCurrentSnapshot ==
  \A m, o \in inflight :
    (o.n < m.n /\ ~m.superseded /\ m.phase = "sent")
      => /\ o.n = m.n - 1
              => m.displayedData = Def(OptimisticData(o, OrEmpty(o.displayedData)))
         /\ (ChangeVisible(o, OrEmpty(m.displayedData)) /\ ~Undoes(m, o))
              => ChangeVisible(o, OrEmpty(cache.data))

\* addMember is in flight, editMember has started after it, and the cache
\* shows both changes
C23_Witness ==
  \E m, o \in inflight :
    /\ o.n < m.n /\ ~m.superseded /\ m.phase = "sent"
    /\ o.kind = "addMember" /\ m.kind = "editMember"
    /\ ChangeVisible(o, OrEmpty(cache.data))
    /\ ChangeVisible(m, OrEmpty(cache.data))

MemberIds(s) == {x.id : x \in s.members}

\* The bodies a 2xx answer to a create request can carry
CreatedBodies(m) ==
  {[NoBody EXCEPT !.id = i, !.group_id = m.groupId] : i \in 1..(MaxMutations + 1)}

\* Every entry of before with a server-assigned id is in after as it was
KeepsAcknowledged(before, after) ==
  /\ Len(after) = Len(before)
  /\ \A i \in 1..Len(before) :
       before[i].id > 0
         => /\ after[i].id = before[i].id /\ after[i].name = before[i].name
            /\ Len(after[i].members) = Len(before[i].members)
            /\ \A k \in 1..Len(before[i].members) :
                 before[i].members[k].id > 0
                   => after[i].members[k] = before[i].members[k]

\* C24: every id the store holds is positive and every sentinel id negative,
\* so a sentinel is the id of no stored group or member, every entry of the
\* cache with a negative id is a placeholder, and the splice of a create
\* response leaves every entry with a server-assigned id as it was.
C24_SentinelsAreNegative ==
  /\ \A id \in GroupIds(db) \cup MemberIds(db) : id > 0
  /\ \A m \in inflight :
       m.kind \in {"addGroup", "addMember"}
         => /\ m.tempId < 0
            /\ m.tempId \notin GroupIds(db) \cup MemberIds(db)
            /\ \A body \in CreatedBodies(m) :
                 \A data \in {HookData, OrEmpty(m.committedData)} :
                   KeepsAcknowledged(data, Spliced(m, data, body))
  /\ \A i \in 1..Len(HookData) :
       /\ HookData[i].id < 0 <=> HookData[i].created_at = IsoTime(HookData[i].created_at[2])
       /\ \A k \in 1..Len(HookData[i].members) :
            LET x == HookData[i].members[k]
            IN x.id < 0 <=> x.created_at = IsoTime(x.created_at[2])

\* a placeholder with id -1 is shown next to the stored member with id 1
C24_Witness ==
  /\ \E m \in inflight : m.kind = "addMember" /\ m.tempId = 0 - 1 /\ m.phase = "sent"
  /\ MembersWithId(HookData, 1, 0 - 1) # {}
  /\ MembersWithId(HookData, 1, 1) # {}
  /\ 1 \in MemberIds(db)

(* ------------------------------------------------------------------ *)
(*  Properties of the store client                                     *)
(* ------------------------------------------------------------------ *)

\* The connection string db.ts resolves
DbUrl == Nullish(env.DATABASE_URL, env.POSTGRES_URL)

\* C25: in one process each module builds at most one client, the one it
\* keeps, and a call made while a client is kept leaves it in place; when the
\* connection string is absent (for getTursoClient: or the auth token) the call
\* throws the configuration error, no client is built or kept and no
\* statement is executed; otherwise no configuration error is thrown.
C25_ClientIsLazySingleton ==
  /\ clientsBuilt.db <= 1 /\ clientsBuilt.turso <= 1
  /\ _client.defined <=> clientsBuilt.db = 1
  /\ client.defined <=> clientsBuilt.turso = 1
  /\ executed > 0 => _client.defined
  /\ Falsy(DbUrl) => ~_client.defined /\ executed = 0
  /\ (Falsy(env.DATABASE_URL) \/ Falsy(env.TURSO_AUTH_TOKEN)) => ~client.defined
  /\ LET r == getClient(_client, env)
         q == getTursoClient(client, env)
     IN /\ _client.defined => r.client = _client /\ r.built = 0
        /\ client.defined => q.client = client /\ q.built = 0
        /\ Falsy(DbUrl) <=> (~r.ok /\ r.err = DbUrlNotSet)
        /\ Falsy(DbUrl) => r.client = Undef /\ r.built = 0
        /\ (Falsy(env.DATABASE_URL) \/ Falsy(env.TURSO_AUTH_TOKEN))
             <=> (~q.ok /\ q.err \in {UrlNotSet, TokenNotSet})
        /\ ~q.ok => q.client = Undef /\ q.built = 0

\* the process has executed two statements with the one client it built
C25_Witness ==
  /\ executed = MaxStatements
  /\ clientsBuilt.db = 1
  /\ _client.defined

(* ------------------------------------------------------------------ *)
(*  Properties of the view                                             *)
(* ------------------------------------------------------------------ *)

\* The step makes no call of a prop
NoCall == calls' = calls /\ invoked' = invoked

\* The step makes one call of fn, for id, with the typed name trimmed
OneCall(fn, id, typed) ==
  /\ invoked' = invoked + 1
  /\ \E c \in calls' \ calls :
       /\ calls' = calls \cup {c}
       /\ c.fn = fn /\ c.id = id
       /\ c.name # <<>> /\ IsTrimOf(c.name, typed)

\* C26: saveName of GroupCard and of MemberRow leaves edit mode; when the
\* typed name is blank or, trimmed, the name shown, it resets the input to the
\* name shown and calls nothing; otherwise it calls onRenameGroup/onEditMember
\* once with the trimmed name; when that call rejects, the input is reset to
\* the name the component showed at the call.
C26_BlankOrSameRenameIsNoOp ==
  [][/\ GroupCardSaveName
          => /\ ~groupCard'.editingName
             /\ IF \/ AllSpaces(groupCard.nameValue)
                   \/ IsTrimOf(groupCard.group.name, groupCard.nameValue)
                THEN NoCall /\ groupCard'.nameValue = groupCard.group.name
                ELSE OneCall("onRenameGroup", groupCard.group.id, groupCard.nameValue)
     /\ MemberRowSaveName
          => /\ ~memberRow'.editing
             /\ IF \/ AllSpaces(memberRow.nameVal)
                   \/ IsTrimOf(memberRow.member.name, memberRow.nameVal)
                THEN NoCall /\ memberRow'.nameVal = memberRow.member.name
                ELSE OneCall("onEditMember", memberRow.member.id, memberRow.nameVal)
     /\ (RenameGroupRejects /\ groupCard.mounted)
          => \E c \in calls \ calls' :
               c.fn = "onRenameGroup" /\ groupCard'.nameValue = c.from
     /\ (EditMemberRejects /\ memberRow.mounted)
          => \E c \in calls \ calls' :
               c.fn = "onEditMember" /\ memberRow'.nameVal = c.from]_vars

\* the group shown as B was renamed by typing " A ", and the call is pending
C26_Witness ==
  /\ \E c \in calls : c.fn = "onRenameGroup" /\ c.name = <<"A">> /\ c.from = <<"B">>
  /\ groupCard.saving /\ ~groupCard.editingName
  /\ groupCard.nameValue = <<"A">>

\* C30: onDeleteGroup is called only by a click on the delete button that
\* finds confirmDelete set; a click that finds it unset sets it and calls
\* nothing, a blur of the button clears it, and when the delete call has
\* settled, saving and confirmDelete are both false.
C30_DeleteNeedsConfirmation ==
  [][/\ (\E c \in calls' \ calls : c.fn = "onDeleteGroup")
          => /\ groupCard.confirmDelete
             /\ \E c \in calls' \ calls :
                  calls' = calls \cup {c} /\ c.id = groupCard.group.id
             /\ invoked' = invoked + 1
     /\ (handleDelete /\ ~groupCard.confirmDelete)
          => NoCall /\ groupCard'.confirmDelete
     /\ DeleteButtonBlur => NoCall /\ ~groupCard'.confirmDelete
     /\ (DeleteGroupResolves \/ DeleteGroupRejects)
          => ~groupCard'.saving /\ ~groupCard'.confirmDelete]_vars

\* the second click has called onDeleteGroup and the call is pending
C30_Witness ==
  /\ \E c \in calls : c.fn = "onDeleteGroup" /\ c.id = 1
  /\ ~groupCard.mounted
  /\ invoked = 1

(* ------------------------------------------------------------------ *)
(*  Properties of concurrent store calls                               *)
(* ------------------------------------------------------------------ *)

\* C27: whenever the SELECT of a createMember call runs, the call returns
\* the member row that its own INSERT stored: same id, group_id and name.
C27_CreateMemberReturnsOwnRow ==
  \A c \in running :
    LET r == createMemberSelected(db)
    IN /\ r.ok
       /\ r.val.id = c.id /\ r.val.group_id = c.group_id /\ r.val.name = c.name

(* ------------------------------------------------------------------ *)
(*  Properties of the Sync Engine: sentinels of concurrent additions   *)
(* ------------------------------------------------------------------ *)

\* C28: placeholders shown at the same time have different sentinel ids: no
\* two groups of the cached list share a negative id, no two members of one
\* group do, and two additions of the same kind in flight have different
\* tempIds.
C28_PlaceholdersHaveDistinctIds ==
  /\ \A i, j \in 1..Len(HookData) :
       (i # j /\ HookData[i].id < 0) => HookData[i].id # HookData[j].id
  /\ \A i \in 1..Len(HookData) :
       \A k, l \in 1..Len(HookData[i].members) :
         (k # l /\ HookData[i].members[k].id < 0)
           => HookData[i].members[k].id # HookData[i].members[l].id
  /\ \A m, o \in inflight :
       (m.n # o.n /\ m.kind = o.kind /\ m.kind \in {"addGroup", "addMember"})
         => m.tempId # o.tempId

(* ------------------------------------------------------------------ *)
(*  Properties of the Sync Engine: the optimistic prediction           *)
(* ------------------------------------------------------------------ *)

\* The member rows optimistic and revalidated are the same, but for the id
\* and created_at of the placeholder tempId
SameMember(optimistic, revalidated, tempId) ==
  /\ optimistic.group_id = revalidated.group_id
  /\ optimistic.name = revalidated.name
  /\ optimistic.checked_in = revalidated.checked_in
  /\ optimistic.id # tempId
       => /\ optimistic.id = revalidated.id
          /\ optimistic.created_at = revalidated.created_at

\* The snapshots optimistic and revalidated are the same, but for the id
\* and created_at of the placeholder tempId
SameSnapshot(optimistic, revalidated, tempId) ==
  /\ Len(optimistic) = Len(revalidated)
  /\ \A i \in 1..Len(optimistic) :
       /\ optimistic[i].name = revalidated[i].name
       /\ optimistic[i].id # tempId
            => /\ optimistic[i].id = revalidated[i].id
               /\ optimistic[i].created_at = revalidated[i].created_at
       /\ Len(optimistic[i].members) = Len(revalidated[i].members)
       /\ \A k \in 1..Len(optimistic[i].members) :
            SameMember(optimistic[i].members[k], revalidated[i].members[k], tempId)

\* C29: when a mutation starts with no other mutation in flight on a cache
\* that shows the store's listing, and the API layer accepts its request, the
\* snapshot it publishes equals the listing of the store after the request,
\* but for the sentinel id and created_at of an added entity.
C29_OptimisticAgreesWithServer ==
  [][\A m \in inflight' :
       (/\ inflight = {}
        /\ inflight' = {m}
        /\ fetch.phase = "none"
        /\ cache.data = Def(Listing(db))
        /\ Success(Route(db, RequestOf(m), clock).resp.status))
         => SameSnapshot(OrEmpty(cache'.data),
                         Listing(Route(db, RequestOf(m), clock).s), m.tempId)]_vars

====
